---- MODULE Spec2Model ----
(***************************************************************************)
(* Model of the direct connect resource manager                            *)
(* (plugins/resourcemanagers/directconnect/directconnect.go).              *)
(*                                                                         *)
(* The manager keeps a map `resources` (resource id -> resourceInfo) next  *)
(* to the queue `q`, which owns the resources themselves.  The queue and   *)
(* the protected map are collaborators whose code is not in this source    *)
(* file; they are modelled from their documented contract.                 *)
(***************************************************************************)
EXTENDS Integers, Sequences, FiniteSets, TLC

\* ------------------------------------------------------------------ bounds
\* Number of resource ids the queue can hand out in one run.
MaxIds == 2
\* Last instant of the clock read by time.Now().
MaxTime == 2

\* --------------------------------------------------------------- constants
Nil == "nil"
ErrNoAddress == "Cannot add resource, address was not specified."
ErrNoName == "Cannot add resource, name was not specified."
ErrNotInQueue == "Resource with requested ID not found in the queue."
ErrNotInManager == "Resource with requested ID could not be found in direct connect resource manager."
\* Failures reported by the queue's own operations.
ErrQueueAdd == "queue: AddResource failed"
ErrQueueConnect == "queue: ConnectResource failed"
ErrQueueRemove == "queue: RemoveResource failed"
ErrQueueResume == "queue: ResumeResource failed"
ErrQueuePause == "queue: PauseResource failed"

\* Status values the queue gives a resource.
STATUS_RUNNING == "running"
STATUS_PAUSED == "paused"

\* The zero value of time.Time.
ZeroTime == 0

\* Resource ids are strings; the queue assigns "1", "2", ...
Ids == {ToString(i) : i \in 1..MaxIds}
\* Ids a caller may pass: the assigned ones and the empty string.
InputIds == Ids \cup {""}

\* Status strings a caller may pass to UpdateResource.
InputStatuses == {"resume", "pause", STATUS_PAUSED, "bogus"}

\* map[string]string parameter maps a caller may pass.
NameValues == {"node1"}
AddressValues == {"10.0.0.5"}
NotesValues == {"rack 4"}
ParamValues(k) ==
  IF k = "name" THEN NameValues
  ELSE IF k = "address" THEN AddressValues
  ELSE NotesValues
ParamMaps ==
  UNION { { p \in [D -> NameValues \cup AddressValues \cup NotesValues] :
              \A k \in D : p[k] \in ParamValues(k) } :
          D \in SUBSET {"name", "address", "notes"} }
\* Maps passed to UpdateResource, which reads no key but notes.
UpdateParamMaps == { p \in ParamMaps : DOMAIN p \subseteq {"notes"} }
\* A nil map.
NilParams == [k \in {} |-> ""]

\* The zero value &queue.Resource{}.
ZeroResource == [name |-> "", address |-> "", status |-> ""]

VARIABLES
  resources,  \* directResourceManager.resources: id -> resourceInfo
  q,          \* the queue's resources: id -> [name, address, status]
  nextId,     \* number of the next id the queue assigns
  now,        \* the clock
  last,       \* the last call: its inputs, its returned values, the queue calls it made
  keepers,    \* the passes of Keep under way: invocation -> position in the pass
  updater     \* an UpdateResource under way: its arguments and its position

vars == <<resources, q, nextId, now, last, keepers, updater>>

\* The state of the calls that run step by step.
conc == <<keepers, updater>>

\* -------------------------------------------------------------- map helpers
\* Go's m[k] with the comma-ok form.
HasKey(m, k) == k \in DOMAIN m
\* Go's m[k] on a map[string]string: the zero value when the key is absent.
Lookup(m, k) == IF k \in DOMAIN m THEN m[k] ELSE ""
\* protectedmap Set / Delete / Count.
MapSet(m, k, v) == [x \in DOMAIN m \cup {k} |-> IF x = k THEN v ELSE m[x]]
MapDelete(m, k) == [x \in DOMAIN m \ {k} |-> m[x]]
MapCount(m) == Cardinality(DOMAIN m)

\* Every order in which the keys of a map can be produced by an iteration.
Orders(S) ==
  { s \in [1..Cardinality(S) -> S] :
      \A i, j \in 1..Cardinality(S) : i # j => s[i] # s[j] }

Range(s) == { s[i] : i \in DOMAIN s }

\* The record of a call.
Call(op, id, status, params, err, calls, resource, parameters, ids) ==
  [op |-> op, id |-> id, status |-> status, params |-> params, err |-> err,
   calls |-> calls, resource |-> resource, parameters |-> parameters, ids |-> ids]

\* One call made to the queue, with the error (or Nil) it returned.
QCall(fn, err) == [fn |-> fn, err |-> err]
\* The calls among `calls` that ask the queue to change a resource.
Mutating(calls) ==
  SelectSeq(calls, LAMBDA c : c.fn \in {"AddResource", "ConnectResource",
                                        "RemoveResource", "PauseResource",
                                        "ResumeResource"})
Fns(calls) == [i \in DOMAIN calls |-> calls[i].fn]

\* The receiver of the methods.
this == [resources |-> resources, q |-> q]

NoCall == Call("none", "", "", NilParams, Nil, <<>>, ZeroResource, NilParams, <<>>)

\* No call of a method is under way.
Idle == last = NoCall

\* The invocations of Keep the host's timer can have under way at once.
Keepers == {"tick1", "tick2"}

\* A tuple of the iterator, and the zero tuple.
Tuple(key, val) == [Key |-> key, Val |-> val]
NoTuple == Tuple("", [notes |-> "", lastGoodCheck |-> ZeroTime])

\* A pass of Keep that has not started: pc is the position in the pass, iter
\* the tuples the iterator has still to deliver, data the tuple of the round
\* under way, snap the keys the map held when the pass started and rounds
\* the number of rounds of the loop run for each of them.
IdleKeeper ==
  [pc |-> "idle", iter |-> {}, data |-> NoTuple, snap |-> {},
   rounds |-> [k \in {} |-> 0]]

\* No UpdateResource under way.
IdleUpdater ==
  [pc |-> "idle", resourceid |-> "", newstatus |-> "", newparams |-> NilParams,
   oldresource |-> ZeroResource]

\* ------------------------------------------------------------------- Setup
Init ==
  /\ resources = [k \in {} |-> [notes |-> "", lastGoodCheck |-> ZeroTime]]
  /\ q = [k \in {} |-> ZeroResource]
  /\ nextId = 1
  /\ now = 1
  /\ last = NoCall
  /\ keepers = [k \in Keepers |-> IdleKeeper]
  /\ updater = IdleUpdater

\* Mutant: the notes of the parameters are dropped.
parseParams_DropNotes(params) ==
  [notes |-> "", lastGoodCheck |-> ZeroTime]

\* ------------------------------------------------------------- parseParams
parseParams(params) ==
  [notes |-> Lookup(params, "notes"), lastGoodCheck |-> ZeroTime]

\* ------------------------------------------------------------------- queue
\* queue.AddResource(name): registers a resource under a new id.
qAddResource(uuid, name) ==
  MapSet(q, uuid, [name |-> name, address |-> "", status |-> STATUS_PAUSED])
\* queue.ConnectResource(uuid, address, tls) on the queue qq.
qConnectResource(qq, uuid, address) ==
  [qq EXCEPT ![uuid].address = address, ![uuid].status = STATUS_RUNNING]
\* queue.RemoveResource(id).
qRemoveResource(resourceid) == MapDelete(q, resourceid)
\* queue.PauseResource(id) / queue.ResumeResource(id).
qPauseResource(resourceid) == [q EXCEPT ![resourceid].status = STATUS_PAUSED]
qResumeResource(resourceid) == [q EXCEPT ![resourceid].status = STATUS_RUNNING]

\* ------------------------------------------------------------- AddResource
\* Mutant: the check of the name key is left out.
AddResourceValidate_NoNameCheck(params) ==
  IF ~HasKey(params, "address") THEN ErrNoAddress
  ELSE Nil

\* The validation of the parameter map: the error returned, or Nil.
AddResourceValidate(params) ==
  IF ~HasKey(params, "address") THEN ErrNoAddress
  ELSE IF ~HasKey(params, "name") THEN ErrNoName
  ELSE Nil

\* Mutant: the entry is set before the result of the connection is looked at.
AddResourceResources_SetBeforeConnect(uuid, params, connectErr) ==
  MapSet(resources, uuid, parseParams(params))

\* The map after the connection attempt returned connectErr.
AddResourceResources(uuid, params, connectErr) ==
  IF connectErr # Nil THEN resources
  ELSE MapSet(resources, uuid, parseParams(params))

AddResource(params, addOk, connectOk) ==
  LET invalid == AddResourceValidate(params)
      address == Lookup(params, "address")
      name == Lookup(params, "name")
      uuid == ToString(nextId)
      connectErr == IF connectOk THEN Nil ELSE ErrQueueConnect
  IN
  IF invalid # Nil THEN
    /\ last' = Call("AddResource", "", "", params, invalid, <<>>,
                    ZeroResource, NilParams, <<>>)
    /\ UNCHANGED <<resources, q, nextId, now>>
  ELSE IF ~addOk THEN
    /\ last' = Call("AddResource", "", "", params, ErrQueueAdd,
                    <<QCall("AddResource", ErrQueueAdd)>>,
                    ZeroResource, NilParams, <<>>)
    /\ UNCHANGED <<resources, q, nextId, now>>
  ELSE
    /\ nextId <= MaxIds
    /\ nextId' = nextId + 1
    /\ q' = IF connectOk
            THEN qConnectResource(qAddResource(uuid, name), uuid, address)
            ELSE qAddResource(uuid, name)
    /\ resources' = AddResourceResources(uuid, params, connectErr)
    /\ last' = Call("AddResource", uuid, "", params, connectErr,
                    <<QCall("AddResource", Nil), QCall("ConnectResource", connectErr)>>,
                    ZeroResource, NilParams, <<>>)
    /\ UNCHANGED now

\* ---------------------------------------------------------- DeleteResource
\* Mutant: the local data is deleted whatever the queue answered.
DeleteResourceResources_IgnoreErr(resourceid, err) ==
  MapDelete(resources, resourceid)

\* Mutant: the local data is never deleted.
DeleteResourceResources_NoDelete(resourceid, err) ==
  resources

\* The map after queue.RemoveResource returned err.
DeleteResourceResources(resourceid, err) ==
  IF err # Nil THEN resources
  ELSE MapDelete(resources, resourceid)

DeleteResource(resourceid, removeOk) ==
  LET err == IF resourceid \in DOMAIN q /\ removeOk THEN Nil ELSE ErrQueueRemove
  IN
  /\ q' = IF err = Nil THEN qRemoveResource(resourceid) ELSE q
  /\ resources' = DeleteResourceResources(resourceid, err)
  /\ last' = Call("DeleteResource", resourceid, "", NilParams, err,
                  <<QCall("RemoveResource", err)>>, ZeroResource, NilParams, <<>>)
  /\ UNCHANGED <<nextId, now>>

\* ------------------------------------------------------------- GetResource
\* Mutant: one error for both lookups.
GetResource_OneError(t, resourceid) ==
  IF resourceid \notin DOMAIN t.q \/ resourceid \notin DOMAIN t.resources THEN
    [resource |-> ZeroResource, parameters |-> NilParams, err |-> ErrNotInQueue]
  ELSE
    [resource |-> t.q[resourceid],
     parameters |-> [k \in {"notes"} |-> t.resources[resourceid].notes],
     err |-> Nil]

\* The three values GetResource returns on the receiver t.
GetResource(t, resourceid) ==
  IF resourceid \notin DOMAIN t.q THEN
    [resource |-> ZeroResource, parameters |-> NilParams, err |-> ErrNotInQueue]
  ELSE IF resourceid \notin DOMAIN t.resources THEN
    [resource |-> ZeroResource, parameters |-> NilParams, err |-> ErrNotInManager]
  ELSE
    [resource |-> t.q[resourceid],
     parameters |-> [k \in {"notes"} |-> t.resources[resourceid].notes],
     err |-> Nil]

\* The calls GetResource makes to the queue.
GetResourceCalls(resourceid) ==
  <<QCall("GetResource", IF resourceid \in DOMAIN q THEN Nil ELSE "not found")>>

GetResourceCall(resourceid) ==
  LET got == GetResource(this, resourceid) IN
  /\ last' = Call("GetResource", resourceid, "", NilParams, got.err,
                  GetResourceCalls(resourceid), got.resource, got.parameters, <<>>)
  /\ UNCHANGED <<resources, q, nextId, now>>

\* ---------------------------------------------------------- UpdateResource
\* Mutant: the two cases of the switch are exchanged.
UpdateResourceDispatch_Swapped(oldstatus, newstatus) ==
  IF oldstatus # newstatus THEN
    CASE newstatus = "resume" -> "PauseResource"
      [] newstatus = "pause" -> "ResumeResource"
      [] OTHER -> "none"
  ELSE "none"

\* The queue call the status comparison selects, "none" when there is none.
UpdateResourceDispatch(oldstatus, newstatus) ==
  IF oldstatus # newstatus THEN
    CASE newstatus = "resume" -> "ResumeResource"
      [] newstatus = "pause" -> "PauseResource"
      [] OTHER -> "none"
  ELSE "none"

\* Mutant: the entry is set before the error of GetResource is looked at.
UpdateResourceResources_IgnoreErr(resourceid, newparams, err) ==
  MapSet(resources, resourceid, parseParams(newparams))

\* The map after GetResource returned err.
UpdateResourceResources(resourceid, newparams, err) ==
  IF err # Nil THEN resources
  ELSE MapSet(resources, resourceid, parseParams(newparams))

\* UpdateResource with the Set of line 160 moved behind the switch of
\* lines 164-179: the entry is written only when the queue call succeeded.
UpdateResource_SetAfterDispatch(resourceid, newstatus, newparams, queueOk) ==
  LET got == GetResource(this, resourceid)
      oldresource == got.resource
      dispatch == IF got.err # Nil THEN "none"
                  ELSE UpdateResourceDispatch(oldresource.status, newstatus)
      queueErr == IF queueOk THEN Nil
                  ELSE IF dispatch = "ResumeResource" THEN ErrQueueResume
                  ELSE ErrQueuePause
      err == IF got.err # Nil THEN got.err
             ELSE IF dispatch # "none" THEN queueErr
             ELSE Nil
  IN
  /\ resources' = UpdateResourceResources(resourceid, newparams, err)
  /\ q' = IF dispatch = "ResumeResource" /\ queueOk THEN qResumeResource(resourceid)
          ELSE IF dispatch = "PauseResource" /\ queueOk THEN qPauseResource(resourceid)
          ELSE q
  /\ last' = Call("UpdateResource", resourceid, newstatus, newparams, err,
                  IF dispatch = "none" THEN GetResourceCalls(resourceid)
                  ELSE GetResourceCalls(resourceid) \o <<QCall(dispatch, queueErr)>>,
                  oldresource, NilParams, <<>>)
  /\ UNCHANGED <<nextId, now>>

UpdateResource(resourceid, newstatus, newparams, queueOk) ==
  LET got == GetResource(this, resourceid)
      oldresource == got.resource
      dispatch == IF got.err # Nil THEN "none"
                  ELSE UpdateResourceDispatch(oldresource.status, newstatus)
      queueErr == IF queueOk THEN Nil
                  ELSE IF dispatch = "ResumeResource" THEN ErrQueueResume
                  ELSE ErrQueuePause
      err == IF got.err # Nil THEN got.err
             ELSE IF dispatch # "none" THEN queueErr
             ELSE Nil
  IN
  /\ resources' = UpdateResourceResources(resourceid, newparams, got.err)
  /\ q' = IF dispatch = "ResumeResource" /\ queueOk THEN qResumeResource(resourceid)
          ELSE IF dispatch = "PauseResource" /\ queueOk THEN qPauseResource(resourceid)
          ELSE q
  /\ last' = Call("UpdateResource", resourceid, newstatus, newparams, err,
                  IF dispatch = "none" THEN GetResourceCalls(resourceid)
                  ELSE GetResourceCalls(resourceid) \o <<QCall(dispatch, queueErr)>>,
                  oldresource, NilParams, <<>>)
  /\ UNCHANGED <<nextId, now>>

\* ----------------------------------------------------- GetManagedResources
\* make([]string, n): n zero-valued strings.
MakeStrings(n) == [i \in 1..n |-> ""]

\* The slices GetManagedResources can return on the receiver t, one per
\* iteration order of the map.
GetManagedResources(t) ==
  { MakeStrings(MapCount(t.resources)) \o order : order \in Orders(DOMAIN t.resources) }

GetManagedResourcesCall ==
  \E resourceids \in GetManagedResources(this) :
    /\ last' = Call("GetManagedResources", "", "", NilParams, Nil, <<>>,
                    ZeroResource, NilParams, resourceids)
    /\ UNCHANGED <<resources, q, nextId, now>>

\* -------------------------------------------------------------------- Keep
\* The entry written back for localResource when the connection check
\* returned status.
\* KeepEntry with the test of status at line 226 dropped: every check stamps.
KeepEntry_AlwaysStamp(localResource, status) ==
  [localResource EXCEPT !.lastGoodCheck = now]

\* KeepEntry writing back a fresh resourceInfo that carries the time only.
KeepEntry_FreshInfo(localResource, status) ==
  [notes |-> "",
   lastGoodCheck |-> IF status THEN now ELSE localResource.lastGoodCheck]

KeepEntry(localResource, status) ==
  IF status THEN [localResource EXCEPT !.lastGoodCheck = now]
  ELSE localResource

\* A whole pass over the entries of the map, run without a concurrent call;
\* health[k] is what the connection check of resource k returns.
Keep(health) ==
  /\ resources' =
       [k \in DOMAIN resources |->
          IF k \notin DOMAIN q THEN resources[k]
          ELSE KeepEntry(resources[k], health[k])]
  /\ last' = Call("Keep", "", "", NilParams, Nil,
                  IF DOMAIN resources \cap DOMAIN q # {}
                  THEN <<QCall("GetResource", Nil),
                         QCall("CheckResourceConnectionStatus", Nil)>>
                  ELSE IF DOMAIN resources # {}
                  THEN <<QCall("GetResource", "not found")>>
                  ELSE <<>>,
                  ZeroResource, NilParams, <<>>)
  /\ UNCHANGED <<q, nextId, now>>

\* ------------------------------------------------------------- environment
\* Time passes.
Tick ==
  /\ Idle
  /\ now < MaxTime
  /\ now' = now + 1
  /\ UNCHANGED <<resources, q, nextId, last>>

\* The queue loses a resource without the manager being asked.
QueueDrop(resourceid) ==
  /\ Idle
  /\ resourceid \in DOMAIN q
  /\ q' = qRemoveResource(resourceid)
  /\ UNCHANGED <<resources, nextId, now, last>>

\* The method called last returns to the host; calls do not overlap.
Return ==
  /\ last # NoCall
  /\ last' = NoCall
  /\ UNCHANGED <<resources, q, nextId, now>>

\* The calls of the host, one at a time, the queue changed by nothing else.
NextManaged ==
  \/ /\ Idle
     /\ \E params \in ParamMaps, addOk \in BOOLEAN, connectOk \in BOOLEAN :
          AddResource(params, addOk, connectOk)
     /\ UNCHANGED conc
  \/ /\ Idle
     /\ \E resourceid \in InputIds, removeOk \in BOOLEAN :
          DeleteResource(resourceid, removeOk)
     /\ UNCHANGED conc
  \/ /\ Idle
     /\ \E resourceid \in InputIds : GetResourceCall(resourceid)
     /\ UNCHANGED conc
  \/ /\ Idle
     /\ \E resourceid \in InputIds, newstatus \in InputStatuses,
           newparams \in UpdateParamMaps, queueOk \in BOOLEAN :
          UpdateResource(resourceid, newstatus, newparams, queueOk)
     /\ UNCHANGED conc
  \/ /\ Idle
     /\ GetManagedResourcesCall
     /\ UNCHANGED conc
  \/ /\ Idle
     /\ \E health \in [DOMAIN resources -> BOOLEAN] : Keep(health)
     /\ UNCHANGED conc
  \/ /\ Return
     /\ UNCHANGED conc
  \/ /\ Tick
     /\ UNCHANGED conc

Next ==
  \/ NextManaged
  \/ /\ \E resourceid \in Ids : QueueDrop(resourceid)
     /\ UNCHANGED conc

Spec == Init /\ [][Next]_vars

\* The same calls with the queue's resources changed through the manager only.
SpecManaged == Init /\ [][NextManaged]_vars

\* ------------------------------------------------------ overlapping calls
\* The methods take no lock of their own: each call of the map and of the
\* queue is one step, and the steps of an UpdateResource, of the passes of
\* Keep and of the other calls interleave.

\* Iterator(): the tuples of the entries the map holds at the call.
Tuples(m) == {Tuple(k, m[k]) : k \in DOMAIN m}

\* Mutant: a resource the queue does not hold ends the pass (return for continue).
KeepContinue_Return(rest) == {}

\* The tuples left to the loop after the continue of line 213.
KeepContinue(rest) == rest

\* Mutant: the entry of a resource the queue does not hold is deleted.
KeepNotFoundResources_Delete(key) == MapDelete(resources, key)

\* The map after the branch of lines 210-214 for the key of the round.
KeepNotFoundResources(key) == resources

\* Keep is invoked: the iterator is made.
KeepStart(k) ==
  /\ keepers[k].pc = "idle"
  /\ keepers' = [keepers EXCEPT ![k] =
       [pc |-> "loop", iter |-> Tuples(resources), data |-> NoTuple,
        snap |-> DOMAIN resources, rounds |-> [x \in DOMAIN resources |-> 0]]]
  /\ UNCHANGED <<resources, q, nextId, now, last, updater>>

\* A round of the loop starts: the iterator delivers data and the resource
\* is looked up in the queue.
KeepGet(k, data) ==
  /\ keepers[k].pc = "loop"
  /\ data \in keepers[k].iter
  /\ LET rest == keepers[k].iter \ {data}
         ok == data.Key \in DOMAIN q
     IN /\ keepers' = [keepers EXCEPT ![k] =
             IF ok
             THEN [@ EXCEPT !.pc = "check", !.iter = rest, !.data = data,
                            !.rounds[data.Key] = @ + 1]
             ELSE [@ EXCEPT !.iter = KeepContinue(rest),
                            !.rounds[data.Key] = @ + 1]]
        /\ resources' = IF ok THEN resources ELSE KeepNotFoundResources(data.Key)
  /\ UNCHANGED <<q, nextId, now, last, updater>>

\* The round ends: the connection check returns status and the entry
\* delivered by the iterator is written back.
KeepSet(k, status) ==
  /\ keepers[k].pc = "check"
  /\ resources' = MapSet(resources, keepers[k].data.Key,
                         KeepEntry(keepers[k].data.Val, status))
  /\ keepers' = [keepers EXCEPT ![k].pc = "loop", ![k].data = NoTuple]
  /\ UNCHANGED <<q, nextId, now, last, updater>>

\* The iterator is exhausted: Keep returns.
KeepReturn(k) ==
  /\ keepers[k].pc = "loop"
  /\ keepers[k].iter = {}
  /\ keepers' = [keepers EXCEPT ![k] = IdleKeeper]
  /\ UNCHANGED <<resources, q, nextId, now, last, updater>>

\* A step of the pass k.
KeeperStep(k) ==
  \/ \E data \in keepers[k].iter : KeepGet(k, data)
  \/ \E status \in BOOLEAN : KeepSet(k, status)
  \/ KeepReturn(k)

\* UpdateResource is called and gets the resource.
UpdateGet(resourceid, newstatus, newparams) ==
  /\ updater.pc = "idle"
  /\ LET got == GetResource(this, resourceid)
     IN IF got.err # Nil
        THEN /\ last' = Call("UpdateResource", resourceid, newstatus, newparams,
                             got.err, GetResourceCalls(resourceid),
                             got.resource, NilParams, <<>>)
             /\ UNCHANGED updater
        ELSE /\ updater' = [pc |-> "got", resourceid |-> resourceid,
                            newstatus |-> newstatus, newparams |-> newparams,
                            oldresource |-> got.resource]
             /\ UNCHANGED last
  /\ UNCHANGED <<resources, q, nextId, now, keepers>>

\* UpdateResource sets the entry.
UpdateSet ==
  /\ updater.pc = "got"
  /\ resources' = UpdateResourceResources(updater.resourceid, updater.newparams, Nil)
  /\ updater' = [updater EXCEPT !.pc = "set"]
  /\ UNCHANGED <<q, nextId, now, last, keepers>>

\* UpdateResource makes its call to the queue, if any, and returns. The
\* queue refuses to pause or resume a resource it no longer holds.
UpdateDispatch(queueOk) ==
  /\ updater.pc = "set"
  /\ LET resourceid == updater.resourceid
         dispatch == UpdateResourceDispatch(updater.oldresource.status,
                                            updater.newstatus)
         ok == queueOk /\ resourceid \in DOMAIN q
         queueErr == IF ok THEN Nil
                     ELSE IF dispatch = "ResumeResource" THEN ErrQueueResume
                     ELSE ErrQueuePause
     IN /\ q' = IF dispatch = "ResumeResource" /\ ok THEN qResumeResource(resourceid)
                ELSE IF dispatch = "PauseResource" /\ ok THEN qPauseResource(resourceid)
                ELSE q
        /\ last' = Call("UpdateResource", resourceid, updater.newstatus,
                        updater.newparams,
                        IF dispatch # "none" THEN queueErr ELSE Nil,
                        IF dispatch = "none" THEN <<QCall("GetResource", Nil)>>
                        ELSE <<QCall("GetResource", Nil), QCall(dispatch, queueErr)>>,
                        updater.oldresource, NilParams, <<>>)
  /\ updater' = IdleUpdater
  /\ UNCHANGED <<resources, nextId, now, keepers>>

\* The inputs of the overlapping calls: the parameters of a resource that
\* is added, the command of an update, the invocation of Keep that overlaps
\* the calls of the facade.
ConcAddParams == {p \in ParamMaps : DOMAIN p = {"name", "address"}}
ConcStatuses == {"pause"}
ConcKeepers == {"tick1"}

\* Calls of the facade (Add and Delete in one step each, UpdateResource step
\* by step, on ids the queue holds) overlapping one pass of Keep.
NextConc ==
  \/ /\ \E params \in ConcAddParams : AddResource(params, TRUE, TRUE)
     /\ UNCHANGED conc
  \/ /\ \E resourceid \in DOMAIN q : DeleteResource(resourceid, TRUE)
     /\ UNCHANGED conc
  \/ \E resourceid \in DOMAIN q \cap DOMAIN resources,
        newstatus \in ConcStatuses, newparams \in UpdateParamMaps :
       UpdateGet(resourceid, newstatus, newparams)
  \/ UpdateSet
  \/ UpdateDispatch(TRUE)
  \/ \E k \in ConcKeepers : KeepStart(k)
  \/ \E k \in ConcKeepers : \E data \in keepers[k].iter : KeepGet(k, data)
  \/ \E k \in ConcKeepers, status \in BOOLEAN : KeepSet(k, status)
  \/ \E k \in ConcKeepers : KeepReturn(k)
  \/ /\ Return
     /\ UNCHANGED conc
  \/ /\ \E resourceid \in Ids : QueueDrop(resourceid)
     /\ UNCHANGED conc

SpecConc == Init /\ [][NextConc]_vars

\* The timer of the host invoking Keep, an invocation not waiting for the
\* one before it, while resources are added and the queue loses resources.
NextTicks ==
  \/ /\ \E params \in ConcAddParams : AddResource(params, TRUE, TRUE)
     /\ UNCHANGED conc
  \/ \E k \in Keepers : KeepStart(k)
  \/ \E k \in Keepers : \E data \in keepers[k].iter : KeepGet(k, data)
  \/ \E k \in Keepers, status \in BOOLEAN : KeepSet(k, status)
  \/ \E k \in Keepers : KeepReturn(k)
  \/ /\ Return
     /\ UNCHANGED conc
  \/ /\ \E resourceid \in Ids : QueueDrop(resourceid)
     /\ UNCHANGED conc

SpecTicks == Init /\ [][NextTicks]_vars

\* One pass of Keep at a time, while resources are added and deleted and
\* the queue loses resources.
NextPass ==
  \/ /\ \E params \in ConcAddParams : AddResource(params, TRUE, TRUE)
     /\ UNCHANGED conc
  \/ /\ \E resourceid \in DOMAIN q : DeleteResource(resourceid, TRUE)
     /\ UNCHANGED conc
  \/ \E k \in ConcKeepers : KeepStart(k)
  \/ \E k \in ConcKeepers : \E data \in keepers[k].iter : KeepGet(k, data)
  \/ \E k \in ConcKeepers, status \in BOOLEAN : KeepSet(k, status)
  \/ \E k \in ConcKeepers : KeepReturn(k)
  \/ /\ Return
     /\ UNCHANGED conc
  \/ /\ \E resourceid \in Ids : QueueDrop(resourceid)
     /\ UNCHANGED conc

\* A goroutine that runs Keep goes on running: the steps of a pass under
\* way are taken.
SpecPassFair ==
  Init /\ [][NextPass]_vars /\ \A k \in ConcKeepers : WF_vars(KeeperStep(k))

\* ------------------------------------------------------------------ claims
\* The entry parseParams is meant to build from a parameter map.
InfoOf(params) ==
  [notes |-> IF "notes" \in DOMAIN params THEN params["notes"] ELSE "",
   lastGoodCheck |-> ZeroTime]

\* C1: an AddResource whose parameter map lacks the key name or the key
\* address returns an error, makes no call to the queue and leaves the queue
\* and the map of resources as they were.
C1_AddMissingKey ==
  [][ ( /\ last'.op = "AddResource"
        /\ ~("name" \in DOMAIN last'.params /\ "address" \in DOMAIN last'.params) )
      => ( /\ last'.err \in {ErrNoAddress, ErrNoName}
           /\ last'.calls = <<>>
           /\ q' = q
           /\ nextId' = nextId
           /\ resources' = resources ) ]_vars

\* C1 witness: an AddResource without name has been refused while the map
\* and the queue held a resource.
C1_Witness ==
  /\ last.op = "AddResource"
  /\ "name" \notin DOMAIN last.params
  /\ "address" \in DOMAIN last.params
  /\ last.err = ErrNoName
  /\ DOMAIN resources # {}
  /\ DOMAIN q # {}

\* C2: after an AddResource that returned no error the map holds exactly one
\* new entry, under the id the queue assigned, with the notes of the
\* parameters (the empty string when the key is absent) and a zero
\* lastGoodCheck; GetResource on that id then returns no error and those notes.
C2_AddSuccess ==
  [][ ( /\ last'.op = "AddResource"
        /\ last'.err = Nil )
      => ( /\ last'.id \notin DOMAIN resources
           /\ last'.id \notin DOMAIN q
           /\ last'.id \in DOMAIN q'
           /\ DOMAIN resources' = DOMAIN resources \cup {last'.id}
           /\ \A k \in DOMAIN resources : resources'[k] = resources[k]
           /\ resources'[last'.id] = InfoOf(last'.params)
           /\ GetResource(this', last'.id).err = Nil
           /\ GetResource(this', last'.id).resource = q'[last'.id]
           /\ GetResource(this', last'.id).parameters["notes"]
                = InfoOf(last'.params).notes ) ]_vars

\* C2 witness: a resource has been added from parameters without notes,
\* next to a resource that has been checked since it was added.
C2_Witness ==
  /\ last.op = "AddResource"
  /\ last.err = Nil
  /\ "notes" \notin DOMAIN last.params
  /\ Cardinality(DOMAIN resources) = 2
  /\ \E k \in DOMAIN resources : resources[k].lastGoodCheck # ZeroTime

\* C3: when the queue registers the resource and then fails to connect it,
\* AddResource returns the error of the connection, the queue keeps the new
\* id and the map is unchanged; when the queue fails to register it, there is
\* no connection attempt and no write to the map.
C3_AddPartialFailure ==
  [][ ( /\ last'.op = "AddResource"
        /\ last'.calls # <<>>
        /\ \E i \in DOMAIN last'.calls : last'.calls[i].err # Nil )
      => IF last'.calls[1].err = Nil
         THEN /\ Fns(last'.calls) = <<"AddResource", "ConnectResource">>
              /\ last'.err = last'.calls[2].err
              /\ last'.id \in DOMAIN q' \ DOMAIN q
              /\ \A k \in DOMAIN q : q'[k] = q[k]
              /\ resources' = resources
              /\ last'.id \notin DOMAIN resources'
         ELSE /\ Fns(last'.calls) = <<"AddResource">>
              /\ last'.err = last'.calls[1].err
              /\ q' = q
              /\ resources' = resources ]_vars

\* C3 witness: the connection of a newly registered resource has failed; the
\* queue holds the id and the map does not.
C3_Witness ==
  /\ last.op = "AddResource"
  /\ last.err = ErrQueueConnect
  /\ last.id \in DOMAIN q
  /\ last.id \notin DOMAIN resources
  /\ DOMAIN resources # {}

\* C4: when the queue fails to remove the resource, DeleteResource returns
\* that failure and the map is unchanged.
C4_DeleteFailure ==
  [][ ( /\ last'.op = "DeleteResource"
        /\ last'.calls[1].err # Nil )
      => ( /\ last'.err = last'.calls[1].err
           /\ resources' = resources ) ]_vars

\* C4 witness: the removal of a resource the map holds, checked before, has
\* failed and the entry is still there.
C4_Witness ==
  /\ last.op = "DeleteResource"
  /\ last.err = ErrQueueRemove
  /\ last.id \in DOMAIN resources
  /\ last.id \in DOMAIN q
  /\ resources[last.id].lastGoodCheck # ZeroTime

\* C5: after a DeleteResource that returned no error, no slice
\* GetManagedResources can return holds the id, and every other entry of the
\* map is as it was.
C5_DeleteSuccess ==
  [][ ( /\ last'.op = "DeleteResource"
        /\ last'.err = Nil )
      => ( /\ \A resourceids \in GetManagedResources(this') :
                last'.id \notin Range(resourceids)
           /\ DOMAIN resources' = DOMAIN resources \ {last'.id}
           /\ \A k \in DOMAIN resources' : resources'[k] = resources[k] ) ]_vars

\* C5 witness: a resource has been deleted while the map keeps another one.
C5_Witness ==
  /\ last.op = "DeleteResource"
  /\ last.err = Nil
  /\ last.id \in Ids
  /\ last.id \notin DOMAIN resources
  /\ DOMAIN resources # {}

\* C6: GetManagedResources returns exactly the keys of the map: as many
\* elements as the map has entries, every key once, nothing that is no key.
C6_ManagedAreKeys ==
  last.op = "GetManagedResources"
    => ( /\ Len(last.ids) = MapCount(resources)
         /\ Range(last.ids) = DOMAIN resources
         /\ \A i, j \in DOMAIN last.ids : i # j => last.ids[i] # last.ids[j] )

\* C7: UpdateResource(id, "pause", params) on a resource of the map that the
\* queue does not report as paused makes exactly one PauseResource call; the
\* same call made again after that one succeeded, the queue now reporting the
\* resource as paused, makes no PauseResource and no ResumeResource call.
C7_PauseOnce ==
  [][ ( /\ last'.op = "UpdateResource"
        /\ last'.status = "pause"
        /\ last'.id \in DOMAIN resources
        /\ last'.id \in DOMAIN q )
      => IF q[last'.id].status # STATUS_PAUSED
         THEN Fns(Mutating(last'.calls)) = <<"PauseResource">>
         ELSE Mutating(last'.calls) = <<>> ]_vars

\* C8: for a resource the queue and the map both hold, UpdateResource makes
\* at most one call that changes the state of the resource: one
\* ResumeResource when the new status is "resume" and differs from the
\* current one, one PauseResource when it is "pause" and differs, none when
\* it equals the current status or is any other value; when it makes none it
\* returns no error and the entry of the map is the one built from the new
\* parameters.
C8_UpdateDispatch ==
  [][ ( /\ last'.op = "UpdateResource"
        /\ last'.id \in DOMAIN resources
        /\ last'.id \in DOMAIN q )
      => LET cur == q[last'.id].status
             new == last'.status
             mut == Fns(Mutating(last'.calls))
         IN /\ Len(mut) <= 1
            /\ (new = "resume" /\ new # cur) => mut = <<"ResumeResource">>
            /\ (new = "pause" /\ new # cur) => mut = <<"PauseResource">>
            /\ (new = cur \/ new \notin {"resume", "pause"})
                 => ( /\ mut = <<>>
                      /\ last'.err = Nil
                      /\ q' = q
                      /\ resources' = [resources EXCEPT ![last'.id] = InfoOf(last'.params)] )
    ]_vars

\* C8 witness: an UpdateResource with the status the paused resource already
\* has returned no error and replaced the notes and the lastGoodCheck of the
\* entry.
C8_Witness ==
  /\ last.op = "UpdateResource"
  /\ last.status = STATUS_PAUSED
  /\ last.resource.status = STATUS_PAUSED
  /\ last.err = Nil
  /\ Len(last.calls) = 1
  /\ "notes" \in DOMAIN last.params
  /\ resources[last.id].notes = last.params["notes"]

\* C9: UpdateResource on an id the queue or the map does not hold returns the
\* error of GetResource, writes nothing to the map and makes no call that
\* changes the queue.
C9_UpdateNotFound ==
  [][ ( /\ last'.op = "UpdateResource"
        /\ (last'.id \notin DOMAIN q \/ last'.id \notin DOMAIN resources) )
      => ( /\ last'.err # Nil
           /\ last'.err = GetResource(this, last'.id).err
           /\ Mutating(last'.calls) = <<>>
           /\ resources' = resources
           /\ q' = q ) ]_vars

\* C9 witness: an UpdateResource asking to pause a resource the queue holds
\* and the map does not has been refused, and the map still lacks the id.
C9_Witness ==
  /\ last.op = "UpdateResource"
  /\ last.status = "pause"
  /\ last.err = ErrNotInManager
  /\ last.id \in DOMAIN q
  /\ last.id \notin DOMAIN resources
  /\ DOMAIN resources # {}

\* C10: GetResource returns an error for an id the queue lacks, another error
\* for an id the queue holds and the map lacks, and otherwise the resource of
\* the queue with the notes of the entry of the map; it changes neither the
\* map nor the queue.
C10_GetResource ==
  [][ last'.op = "GetResource"
      => ( /\ resources' = resources
           /\ q' = q
           /\ IF last'.id \notin DOMAIN q
              THEN /\ last'.err = ErrNotInQueue
                   /\ last'.err # Nil
              ELSE IF last'.id \notin DOMAIN resources
              THEN /\ last'.err \notin {Nil, ErrNotInQueue}
              ELSE /\ last'.err = Nil
                   /\ last'.resource = q[last'.id]
                   /\ last'.parameters["notes"] = resources[last'.id].notes ) ]_vars

\* C10 witness: GetResource has returned the notes of a resource the queue
\* and the map hold.
C10_Witness ==
  /\ last.op = "GetResource"
  /\ last.err = Nil
  /\ last.id \in DOMAIN q
  /\ last.id \in DOMAIN resources
  /\ last.parameters["notes"] # ""

\* C11: a pass of Keep sets an entry's lastGoodCheck to the current time
\* exactly when the queue holds its resource and the connection check
\* returns true; the entry of a resource whose check returns false, or that
\* the queue does not hold, keeps the lastGoodCheck it had.
C11_KeepStampsHealthy ==
  [][\A health \in [DOMAIN resources -> BOOLEAN] :
       (last'.op = "Keep" /\ Keep(health)) =>
         \A k \in DOMAIN resources :
           resources'[k].lastGoodCheck =
             IF k \in DOMAIN q /\ health[k]
             THEN now
             ELSE resources[k].lastGoodCheck]_vars

\* A pass at time 2 has left one resource of the queue with the stamp of
\* time 1 (its check failed) and stamped another one with time 2.
C11_Witness ==
  /\ last.op = "Keep"
  /\ now = 2
  /\ \E k \in DOMAIN resources \cap DOMAIN q, j \in DOMAIN resources \cap DOMAIN q :
       /\ resources[k].lastGoodCheck = 1
       /\ resources[j].lastGoodCheck = 2

C17_RegistryInQueue == DOMAIN resources \subseteq DOMAIN q

\* Two resources were added and one of them deleted with success: the map
\* holds the other one, which a pass of Keep has stamped.
C17_Witness ==
  /\ last.op = "DeleteResource"
  /\ last.err = Nil
  /\ nextId = 3
  /\ MapCount(resources) = 1
  /\ \E k \in DOMAIN resources : resources[k].lastGoodCheck # ZeroTime

\* C19: the lastGoodCheck of a resource that stays in the map never
\* decreases: no pass of Keep and no UpdateResource replaces it with an
\* earlier time, and UpdateResource does not put it back to the zero time.
C19_LastGoodCheckMonotone ==
  [][\A k \in DOMAIN resources \cap DOMAIN resources' :
       resources'[k].lastGoodCheck >= resources[k].lastGoodCheck]_vars

\* C20: UpdateResource writes the map before it calls the queue: when the
\* PauseResource or ResumeResource it makes fails, the call returns that
\* error, the entry of the id is already the one derived from the new
\* parameters, the failed call is the last call made to the queue, and the
\* queue and the rest of the map are as before.
C20_UpdateDispatchFailure ==
  [][( /\ last'.op = "UpdateResource"
       /\ Mutating(last'.calls) # <<>>
       /\ Mutating(last'.calls)[1].err # Nil )
     => LET failed == Mutating(last'.calls)[1]
        IN /\ last'.err = failed.err
           /\ last'.err \in {ErrQueuePause, ErrQueueResume}
           /\ last'.calls[Len(last'.calls)] = failed
           /\ Len(Mutating(last'.calls)) = 1
           /\ resources' = MapSet(resources, last'.id, InfoOf(last'.params))
           /\ q' = q ]_vars

\* An UpdateResource whose queue call failed has left, at a later time, the
\* entry derived from parameters that carry notes.
C20_Witness ==
  /\ last.op = "UpdateResource"
  /\ last.err \in {ErrQueuePause, ErrQueueResume}
  /\ last.id \in DOMAIN resources
  /\ resources[last.id].notes # ""
  /\ resources[last.id] = InfoOf(last.params)
  /\ now > 1

\* C12: when a round of a pass of Keep finds that the queue does not hold
\* the resource of the entry, the round makes no connection check and no
\* write to the map, the entry stays in the map with the notes and the
\* lastGoodCheck it had, and the pass goes on with the entries left.
C12_KeepSkipsMissing ==
  [][\A k \in Keepers : \A data \in keepers[k].iter :
       (KeepGet(k, data) /\ data.Key \notin DOMAIN q)
       => ( /\ resources' = resources
            /\ q' = q
            /\ keepers'[k].pc = "loop"
            /\ keepers'[k].data = NoTuple
            /\ keepers'[k].iter = keepers[k].iter \ {data} )]_vars

\* A pass has gone through the round of an entry whose resource the queue
\* does not hold: the entry is still in the map and a round is left to run.
C12_Witness ==
  \E k \in Keepers :
    /\ keepers[k].pc = "loop"
    /\ keepers[k].iter # {}
    /\ \E key \in keepers[k].snap :
         /\ keepers[k].rounds[key] = 1
         /\ key \in DOMAIN resources
         /\ key \notin DOMAIN q
         /\ resources[key].lastGoodCheck # ZeroTime

C14_KeysByAddAndDelete ==
  [][ /\ \A k \in DOMAIN resources' \ DOMAIN resources :
           /\ last'.op = "AddResource"
           /\ last'.err = Nil
           /\ last'.id = k
           /\ k \notin DOMAIN q
      /\ \A k \in DOMAIN resources \ DOMAIN resources' :
           /\ last'.op = "DeleteResource"
           /\ last'.err = Nil
           /\ last'.id = k ]_vars

\* C15: at most one pass of Keep is under way at any time.
C15_OnePass ==
  Cardinality({k \in Keepers : keepers[k].pc # "idle"}) <= 1

\* C18: an UpdateResource that has returned without error is not undone by
\* a pass of Keep that ran beside it: with no later call for the id and no
\* pass under way any more, the entry holds the notes of the update.
C18_UpdateNotUndone ==
  ( /\ last.op = "UpdateResource"
    /\ last.err = Nil
    /\ updater.pc = "idle"
    /\ \A k \in Keepers : keepers[k].pc = "idle"
    /\ last.id \in DOMAIN resources )
  => resources[last.id].notes = Lookup(last.params, "notes")

====
